---------------------------- MODULE Spec2Model ----------------------------
(***************************************************************************)
(* A model of n00bz' two concurrent components:                            *)
(*                                                                         *)
(*   - first/twitch_eventsub.py, TwitchEventSubWebSocketThread: one        *)
(*     background thread that connects a WebSocket, receives until the     *)
(*     connection closes and reconnects, until stop_thread() is called.    *)
(*   - first/authdb.py, TwitchAuthDb: a table of per-user token pairs      *)
(*     behind one lock.                                                    *)
(*                                                                         *)
(* Every `with self._lock:' block is two steps: the acquisition, and the   *)
(* body together with the release.  Code outside a lock is one step per    *)
(* call that can block (connect, recv, close, join, an API request).       *)
(* Python assertions are taken as enabled (the interpreter's default).     *)
(***************************************************************************)
EXTENDS Integers, Sequences, FiniteSets, TLC

\* ------------------------------------------------------------------ bounds

\* Threads start_thread() may create over the life of one instance.
MaxThreads == 2
\* Messages the server sends over all connections.
MaxMsgs == 2
\* Closures initiated by the server over all connections.
MaxClosures == 1
\* Seconds the store's clock advances.
MaxClock == 1

\* --------------------------------------------------- connection manager

\* Python's None, for _thread and _client (ids are 1, 2, ...).
None == 0

\* The threads of the application that call the public methods.
Callers == {"c1", "c2"}

\* The background threads, in the order start_thread() creates them.
Threads == 1..MaxThreads

\* One socket per successful connect; a closure by the server makes one reconnect.
MaxSockets == MaxThreads + MaxClosures

\* The _Subscription(type, version, condition) values the callers register,
\* each of them once.
Descriptors ==
    { [type |-> "channel.follow", version |-> "2", condition |-> "b1"],
      [type |-> "stream.online",  version |-> "1", condition |-> "b2"] }

\* Session ids a session_welcome message may carry.
Sessions == {"S1", "S2"}

VARIABLES
    lock,           \* _lock: Free, or who holds it
    subscriptions,  \* _subscriptions
    thread,         \* _thread: None, or the latest thread created
    should_stop,    \* _should_stop
    client,         \* _client: None, or the published socket
    cpc,            \* each caller's position: "idle", inside a call, or an exception
    clocal,         \* stop_thread()'s locals `client' and `thread', per caller
    tpc,            \* each background thread's position
    tclient,        \* _run_thread()'s local `client', per thread
    texc,           \* the exception propagating in each thread, or "none"
    tsubs,          \* _handle_json_message()'s local `subscriptions' and its loop position
    sockets,        \* the sockets connect() returned, each "open" or "closed"
    message,        \* the session_welcome being handled, or NoMessage
    requests,       \* the request_eventsub_subscription() calls made for it so far
    nmsgs,          \* messages received so far
    nclosures,      \* closures by the server so far
    stopped         \* history: some stop_thread() call has returned

\* The store's variables (first/authdb.py), which the connection manager leaves alone.
VARIABLES
    db,             \* twitch_tokens as self.db sees it: the rows, in insertion order
    committed,      \* twitch_tokens as of the last self.db.commit()
    now,            \* the clock: what CURRENT_TIMESTAMP evaluates to, in seconds
    dblock,         \* TwitchAuthDb.__lock: "free", or the process that holds it
    spc,            \* each process's position in its call on the store
    scall,          \* that call's arguments and locals
    history         \* history: per user, the upserts executed so far, summarised

svars == <<db, committed, now, dblock, spc, scall, history>>

cvars == <<lock, subscriptions, thread, should_stop, client, cpc, clocal,
           tpc, tclient, texc, tsubs, sockets, message, requests, nmsgs, nclosures,
           stopped>>

\* The values of _lock: nobody, a caller, or a background thread holds it.
Free == [caller |-> "none", thread |-> None]
HeldByCaller(c) == [caller |-> c, thread |-> None]
HeldByThread(t) == [caller |-> "none", thread |-> t]

\* threading.Thread.is_alive(): started and run() not yet finished.
is_alive(t) == tpc[t] \notin {"unstarted", "exited", "crashed"}

\* stop_thread()'s locals outside a call.
NoLocals == [client |-> None, thread |-> None]

NoMessage == [kind |-> "none", session |-> "none"]

CInit ==
    /\ lock = Free
    /\ subscriptions = <<>>
    /\ thread = None
    /\ should_stop = FALSE
    /\ client = None
    /\ cpc = [c \in Callers |-> "idle"]
    /\ clocal = [c \in Callers |-> NoLocals]
    /\ tpc = [t \in Threads |-> "unstarted"]
    /\ tclient = [t \in Threads |-> None]
    /\ texc = [t \in Threads |-> "none"]
    /\ tsubs = [t \in Threads |-> [list |-> <<>>, next |-> 1]]
    /\ sockets = <<>>
    /\ message = NoMessage
    /\ requests = <<>>
    /\ nmsgs = 0
    /\ nclosures = 0
    /\ stopped = FALSE

\* `with self._lock:' entered by caller c, for the method whose body is at `to'.
caller_acquire(c, from, to) ==
    /\ cpc[c] = from
    /\ lock = Free
    /\ lock' = HeldByCaller(c)
    /\ cpc' = [cpc EXCEPT ![c] = to]
    /\ UNCHANGED svars

\* `with self._lock:' entered by background thread t.
thread_acquire(t, from, to) ==
    /\ tpc[t] = from
    /\ lock = Free
    /\ lock' = HeldByThread(t)
    /\ tpc' = [tpc EXCEPT ![t] = to]
    /\ UNCHANGED svars


\* ClientConnection.close(): the socket is closed afterwards, whether it was open
\* or the server had closed it already.
close(socks, s) == [socks EXCEPT ![s] = "closed"]

tvars == <<tpc, tclient, texc, tsubs>>
evars == <<sockets, message, requests, nmsgs, nclosures>>

\* ---- add_subscription(type, version, condition)

\* The descriptors not registered yet.
Unregistered == Descriptors \ {subscriptions[i] : i \in 1..Len(subscriptions)}

\* Line 47.  A call is made only while it fails or a descriptor is left to register.
add_subscription_lock(c) ==
    /\ thread # None \/ Unregistered # {}
    /\ caller_acquire(c, "idle", "add_subscription")
    /\ UNCHANGED <<subscriptions, thread, should_stop, client, clocal, tvars, evars, stopped>>

\* Lines 48-50.  `raise NotImplemented(...)' calls the NotImplemented constant,
\* which is not callable: the call raises TypeError before anything is raised
\* by the raise statement.  The `with' block releases the lock either way.
add_subscription(c, sub) ==
    /\ cpc[c] = "add_subscription"
    /\ thread # None \/ sub \in Unregistered
    /\ IF thread # None
       THEN /\ cpc' = [cpc EXCEPT ![c] = "TypeError"]
            /\ UNCHANGED subscriptions
       ELSE /\ subscriptions' = Append(subscriptions, sub)
            /\ cpc' = [cpc EXCEPT ![c] = "idle"]
    /\ lock' = Free
    /\ UNCHANGED <<thread, should_stop, client, clocal, tvars, evars, stopped>>
    /\ UNCHANGED svars

\* The exceptions a call can raise to its caller.
Exceptions == {"TypeError", "AssertionError"}

\* The caller of a call that raised goes on to its next call.
caller_resumes(c) ==
    /\ cpc[c] \in Exceptions
    /\ cpc' = [cpc EXCEPT ![c] = "idle"]
    /\ UNCHANGED <<lock, subscriptions, thread, should_stop, client, clocal,
                   tvars, evars, stopped>>
    /\ UNCHANGED svars

\* ---- start_thread()

\* Line 60.  A call is made only while fewer than MaxThreads threads were created.
start_thread_lock(c) ==
    /\ thread < MaxThreads
    /\ caller_acquire(c, "idle", "start_thread")
    /\ UNCHANGED <<subscriptions, thread, should_stop, client, clocal, tvars, evars, stopped>>

\* start_thread() that also resets _should_stop for the new thread.
start_thread_clears_stop_flag(c) ==
    /\ cpc[c] = "start_thread"
    /\ IF subscriptions = <<>> \/ (thread # None /\ is_alive(thread))
       THEN /\ cpc' = [cpc EXCEPT ![c] = "AssertionError"]
            /\ UNCHANGED <<thread, tpc, should_stop>>
       ELSE /\ thread' = thread + 1
            /\ tpc' = [tpc EXCEPT ![thread + 1] = "run"]
            /\ should_stop' = FALSE
            /\ cpc' = [cpc EXCEPT ![c] = "idle"]
    /\ lock' = Free
    /\ UNCHANGED <<subscriptions, client, clocal, tclient, texc, tsubs, evars, stopped>>
    /\ UNCHANGED svars

\* start_thread() without the assertion of line 61.
start_thread_without_subscription_check(c) ==
    /\ cpc[c] = "start_thread"
    /\ IF thread # None /\ is_alive(thread)
       THEN /\ cpc' = [cpc EXCEPT ![c] = "AssertionError"]
            /\ UNCHANGED <<thread, tpc>>
       ELSE /\ thread' = thread + 1
            /\ tpc' = [tpc EXCEPT ![thread + 1] = "run"]
            /\ cpc' = [cpc EXCEPT ![c] = "idle"]
    /\ lock' = Free
    /\ UNCHANGED <<subscriptions, should_stop, client, clocal, tclient, texc, tsubs,
                   evars, stopped>>
    /\ UNCHANGED svars

\* start_thread() without the assertion of line 62.
start_thread_without_alive_check(c) ==
    /\ cpc[c] = "start_thread"
    /\ IF subscriptions = <<>>
       THEN /\ cpc' = [cpc EXCEPT ![c] = "AssertionError"]
            /\ UNCHANGED <<thread, tpc>>
       ELSE /\ thread' = thread + 1
            /\ tpc' = [tpc EXCEPT ![thread + 1] = "run"]
            /\ cpc' = [cpc EXCEPT ![c] = "idle"]
    /\ lock' = Free
    /\ UNCHANGED <<subscriptions, should_stop, client, clocal, tclient, texc, tsubs,
                   evars, stopped>>
    /\ UNCHANGED svars

\* Lines 61-64: the two assertions, then Thread(target=self._run_thread).start().
start_thread(c) ==
    /\ cpc[c] = "start_thread"
    /\ IF subscriptions = <<>> \/ (thread # None /\ is_alive(thread))
       THEN /\ cpc' = [cpc EXCEPT ![c] = "AssertionError"]
            /\ UNCHANGED <<thread, tpc>>
       ELSE /\ thread' = thread + 1
            /\ tpc' = [tpc EXCEPT ![thread + 1] = "run"]
            /\ cpc' = [cpc EXCEPT ![c] = "idle"]
    /\ lock' = Free
    /\ UNCHANGED <<subscriptions, should_stop, client, clocal, tclient, texc, tsubs,
                   evars, stopped>>
    /\ UNCHANGED svars

\* ---- stop_thread()

\* Line 72.
stop_thread_lock(c) ==
    /\ caller_acquire(c, "idle", "stop_flag")
    /\ UNCHANGED <<subscriptions, thread, should_stop, client, clocal, tvars, evars, stopped>>

\* stop_thread() calling client.close() of line 80 inside the `with' block.
stop_thread_flag_keeps_lock(c) ==
    /\ cpc[c] = "stop_flag"
    /\ should_stop' = TRUE
    /\ clocal' = [clocal EXCEPT ![c].client = client]
    /\ lock' = IF client # None THEN lock ELSE Free
    /\ cpc' = [cpc EXCEPT ![c] = IF client # None THEN "stop_close" ELSE "stop_relock"]
    /\ UNCHANGED <<subscriptions, thread, client, tvars, evars, stopped>>
    /\ UNCHANGED svars

\* Lines 73-76: set the flag, read _client, release, and branch on the value read.
stop_thread_flag(c) ==
    /\ cpc[c] = "stop_flag"
    /\ should_stop' = TRUE
    /\ clocal' = [clocal EXCEPT ![c].client = client]
    /\ lock' = Free
    /\ cpc' = [cpc EXCEPT ![c] = IF client # None THEN "stop_close" ELSE "stop_relock"]
    /\ UNCHANGED <<subscriptions, thread, client, tvars, evars, stopped>>
    /\ UNCHANGED svars

\* stop_thread() without the client.close() of line 80.
stop_thread_without_close(c) ==
    /\ cpc[c] = "stop_close"
    /\ cpc' = [cpc EXCEPT ![c] = "stop_relock"]
    /\ UNCHANGED <<lock, subscriptions, thread, should_stop, client, clocal,
                   tvars, evars, stopped>>
    /\ UNCHANGED svars

\* Line 80: client.close(), on the caller's thread and outside the lock.
stop_thread_close(c) ==
    /\ cpc[c] = "stop_close"
    /\ sockets' = close(sockets, clocal[c].client)
    /\ cpc' = [cpc EXCEPT ![c] = "stop_relock"]
    /\ UNCHANGED <<lock, subscriptions, thread, should_stop, client, clocal, tvars, message, requests, nmsgs, nclosures, stopped>>
    /\ UNCHANGED svars

\* Line 82.
stop_thread_relock(c) ==
    /\ caller_acquire(c, "stop_relock", "stop_read")
    /\ UNCHANGED <<subscriptions, thread, should_stop, client, clocal, tvars, evars, stopped>>

\* Lines 83-84: read _thread and release; with no thread to join, return.
stop_thread_read(c) ==
    /\ cpc[c] = "stop_read"
    /\ lock' = Free
    /\ IF thread # None
       THEN /\ cpc' = [cpc EXCEPT ![c] = "stop_join"]
            /\ clocal' = [clocal EXCEPT ![c].thread = thread]
            /\ UNCHANGED stopped
       ELSE /\ cpc' = [cpc EXCEPT ![c] = "idle"]
            /\ clocal' = [clocal EXCEPT ![c] = NoLocals]
            /\ stopped' = TRUE
    /\ UNCHANGED <<subscriptions, thread, should_stop, client, tvars, evars>>
    /\ UNCHANGED svars

\* stop_thread() returning without the join() of line 85.
stop_thread_without_join(c) ==
    /\ cpc[c] = "stop_join"
    /\ cpc' = [cpc EXCEPT ![c] = "idle"]
    /\ clocal' = [clocal EXCEPT ![c] = NoLocals]
    /\ stopped' = TRUE
    /\ UNCHANGED <<lock, subscriptions, thread, should_stop, client, tvars, evars>>
    /\ UNCHANGED svars

\* Line 85: thread.join() returns once the thread read at line 83 has finished.
stop_thread_join(c) ==
    /\ cpc[c] = "stop_join"
    /\ ~is_alive(clocal[c].thread)
    /\ cpc' = [cpc EXCEPT ![c] = "idle"]
    /\ clocal' = [clocal EXCEPT ![c] = NoLocals]
    /\ stopped' = TRUE
    /\ UNCHANGED <<lock, subscriptions, thread, should_stop, client, tvars, evars>>
    /\ UNCHANGED svars

\* ---- _run_thread(), _maybe_create_client()

\* The thread's run() ends: by returning (exc = "none"), or with exc propagating
\* out of it, which threading reports and drops.
thread_exit(t, exc) ==
    /\ tpc' = [tpc EXCEPT ![t] = IF exc = "none" THEN "exited" ELSE "crashed"]
    /\ texc' = [texc EXCEPT ![t] = "none"]

\* Line 101, at the top of each round of `while True'.
maybe_create_client_lock(t) ==
    /\ thread_acquire(t, "run", "check_stop")
    /\ UNCHANGED <<subscriptions, thread, should_stop, client, cpc, clocal, tclient, texc, tsubs, evars, stopped>>

\* Lines 102-104: the assertion, then `return None' (and line 92's break) when a
\* stop is pending; otherwise on to connect().
maybe_create_client_check(t) ==
    /\ tpc[t] = "check_stop"
    /\ IF client # None
       THEN thread_exit(t, "AssertionError")
       ELSE IF should_stop
            THEN thread_exit(t, "none")
            ELSE /\ tpc' = [tpc EXCEPT ![t] = "connect"]
                 /\ UNCHANGED texc
    /\ lock' = Free
    /\ UNCHANGED <<subscriptions, thread, should_stop, client, cpc, clocal, tclient, tsubs, evars, stopped>>
    /\ UNCHANGED svars

\* Line 106: websockets.sync.client.connect() returns a new open socket.
connect(t) ==
    /\ tpc[t] = "connect"
    /\ Len(sockets) < MaxSockets
    /\ sockets' = Append(sockets, "open")
    /\ tclient' = [tclient EXCEPT ![t] = Len(sockets) + 1]
    /\ tpc' = [tpc EXCEPT ![t] = "relock"]
    /\ UNCHANGED <<lock, subscriptions, thread, should_stop, client, cpc, clocal,
                   texc, tsubs, message, requests, nmsgs, nclosures, stopped>>
    /\ UNCHANGED svars

\* Line 106: connect() raises (the server is unreachable, the handshake fails).
\* Nothing in _run_thread() catches it: the thread ends.
connect_fails(t) ==
    /\ tpc[t] = "connect"
    /\ thread_exit(t, "ConnectError")
    /\ UNCHANGED <<lock, subscriptions, thread, should_stop, client, cpc, clocal,
                   tclient, tsubs, evars, stopped>>
    /\ UNCHANGED svars

\* Line 108.
maybe_create_client_relock(t) ==
    /\ thread_acquire(t, "relock", "publish")
    /\ UNCHANGED <<subscriptions, thread, should_stop, client, cpc, clocal, tclient, texc, tsubs, evars, stopped>>

\* _maybe_create_client() without the second look at _should_stop (line 110).
maybe_create_client_publish_unchecked(t) ==
    /\ tpc[t] = "publish"
    /\ IF client # None
       THEN /\ thread_exit(t, "AssertionError")
            /\ UNCHANGED <<client, sockets, tclient>>
       ELSE /\ client' = tclient[t]
            /\ tpc' = [tpc EXCEPT ![t] = "recv"]
            /\ UNCHANGED <<sockets, tclient, texc>>
    /\ lock' = Free
    /\ UNCHANGED <<subscriptions, thread, should_stop, cpc, clocal, tsubs, message, requests, nmsgs, nclosures, stopped>>
    /\ UNCHANGED svars

\* Lines 109-116: the assertion; a stop that came during connect() closes the new
\* socket (under the lock) and returns None; otherwise the socket is published.
maybe_create_client_publish(t) ==
    /\ tpc[t] = "publish"
    /\ IF client # None
       THEN /\ thread_exit(t, "AssertionError")
            /\ UNCHANGED <<client, sockets, tclient>>
       ELSE IF should_stop
            THEN /\ sockets' = close(sockets, tclient[t])
                 /\ tclient' = [tclient EXCEPT ![t] = None]
                 /\ thread_exit(t, "none")
                 /\ UNCHANGED client
            ELSE /\ client' = tclient[t]
                 /\ tpc' = [tpc EXCEPT ![t] = "recv"]
                 /\ UNCHANGED <<sockets, tclient, texc>>
    /\ lock' = Free
    /\ UNCHANGED <<subscriptions, thread, should_stop, cpc, clocal, tsubs, message, requests, nmsgs, nclosures, stopped>>
    /\ UNCHANGED svars

\* ---- _handle_client(), _handle_raw_message(), _handle_json_message()

\* What recv() may return: a str holding a JSON object (a session_welcome with a
\* session id, or another message_type), a str that is not JSON, or bytes.
Messages ==
    { [kind |-> "session_welcome", session |-> s] : s \in Sessions }
    \cup { [kind |-> k, session |-> "none"] : k \in {"notification", "not_json", "bytes"} }

\* Lines 132-141: what the dispatch of message m does next.  bytes raise TypeError
\* (line 137), a str that is not JSON makes json.loads raise (line 135), a
\* session_welcome goes on to line 143, any other message_type is dropped.
dispatch(m) ==
    CASE m.kind = "bytes"           -> [pc |-> "finally", exc |-> "TypeError", handling |-> NoMessage]
      [] m.kind = "not_json"        -> [pc |-> "finally", exc |-> "JSONDecodeError", handling |-> NoMessage]
      [] m.kind = "session_welcome" -> [pc |-> "welcome_lock", exc |-> "none", handling |-> m]
      [] OTHER                      -> [pc |-> "recv", exc |-> "none", handling |-> NoMessage]

\* Lines 121, 130: recv() returns the next message of the open socket.
handle_client_recv(t, m) ==
    /\ tpc[t] = "recv"
    /\ sockets[tclient[t]] = "open"
    /\ nmsgs < MaxMsgs
    /\ nmsgs' = nmsgs + 1
    /\ message' = dispatch(m).handling
    /\ tpc' = [tpc EXCEPT ![t] = dispatch(m).pc]
    /\ texc' = [texc EXCEPT ![t] = dispatch(m).exc]
    /\ UNCHANGED <<lock, subscriptions, thread, should_stop, client, cpc, clocal,
                   tclient, tsubs, sockets, requests, nclosures, stopped>>
    /\ UNCHANGED svars

\* _handle_client() without the `except' clauses of lines 122-129: the closure
\* propagates as an exception.
handle_client_closure_uncaught(t, how) ==
    /\ tpc[t] = "recv"
    /\ sockets[tclient[t]] = "open"
    /\ nclosures < MaxClosures
    /\ nclosures' = nclosures + 1
    /\ sockets' = [sockets EXCEPT ![tclient[t]] = how]
    /\ tpc' = [tpc EXCEPT ![t] = "finally"]
    /\ texc' = [texc EXCEPT ![t] = "ConnectionClosed"]
    /\ UNCHANGED <<lock, subscriptions, thread, should_stop, client, cpc, clocal,
                   tclient, tsubs, message, requests, nmsgs, stopped>>
    /\ UNCHANGED svars

\* Lines 122-129: the server closes the connection, recv() raises
\* ConnectionClosedOK or ConnectionClosedError (`how'), and _handle_client returns.
handle_client_closed_by_server(t, how) ==
    /\ tpc[t] = "recv"
    /\ sockets[tclient[t]] = "open"
    /\ nclosures < MaxClosures
    /\ nclosures' = nclosures + 1
    /\ sockets' = [sockets EXCEPT ![tclient[t]] = how]
    /\ tpc' = [tpc EXCEPT ![t] = "finally"]
    /\ UNCHANGED <<lock, subscriptions, thread, should_stop, client, cpc, clocal,
                   tclient, texc, tsubs, message, requests, nmsgs, stopped>>
    /\ UNCHANGED svars

\* Lines 122-129: recv() on a socket that close() has closed raises
\* ConnectionClosedOK (or ConnectionClosedError), and _handle_client returns.
handle_client_closed(t) ==
    /\ tpc[t] = "recv"
    /\ sockets[tclient[t]] # "open"
    /\ tpc' = [tpc EXCEPT ![t] = "finally"]
    /\ UNCHANGED <<lock, subscriptions, thread, should_stop, client, cpc, clocal,
                   tclient, texc, tsubs, evars, stopped>>
    /\ UNCHANGED svars

\* Line 121: recv() raises something that is neither of the two closures;
\* no `except' clause takes it, and it leaves _handle_client.
handle_client_recv_fails(t) ==
    /\ tpc[t] = "recv"
    /\ sockets[tclient[t]] = "open"
    /\ tpc' = [tpc EXCEPT ![t] = "finally"]
    /\ texc' = [texc EXCEPT ![t] = "RecvError"]
    /\ UNCHANGED <<lock, subscriptions, thread, should_stop, client, cpc, clocal,
                   tclient, tsubs, evars, stopped>>
    /\ UNCHANGED svars

\* Line 143.
handle_json_message_lock(t) ==
    /\ thread_acquire(t, "welcome_lock", "welcome_copy")
    /\ UNCHANGED <<subscriptions, thread, should_stop, client, cpc, clocal, tclient, texc, tsubs, evars, stopped>>

\* Line 144: subscriptions = list(self._subscriptions), and the release.
handle_json_message_copy(t) ==
    /\ tpc[t] = "welcome_copy"
    /\ tsubs' = [tsubs EXCEPT ![t] = [list |-> subscriptions, next |-> 1]]
    /\ tpc' = [tpc EXCEPT ![t] = "subscribe"]
    /\ lock' = Free
    /\ UNCHANGED <<subscriptions, thread, should_stop, client, cpc, clocal, tclient, texc, evars, stopped>>
    /\ UNCHANGED svars

\* The request of lines 146-154 with the session id of another connection.
subscription_request_stale_session(subscription, session_id) ==
    [ type      |-> subscription.type,
      version   |-> subscription.version,
      condition |-> subscription.condition,
      transport |-> [method |-> "websocket", session_id |-> "S1"] ]

\* Lines 146-154: the request built for one subscription and the welcome's session id.
subscription_request(subscription, session_id) ==
    [ type      |-> subscription.type,
      version   |-> subscription.version,
      condition |-> subscription.condition,
      transport |-> [method |-> "websocket", session_id |-> session_id] ]

\* Lines 145-154: one round of the for loop, the request accepted by Twitch.
handle_json_message_request(t) ==
    /\ tpc[t] = "subscribe"
    /\ tsubs[t].next <= Len(tsubs[t].list)
    /\ requests' = Append(requests,
                          subscription_request(tsubs[t].list[tsubs[t].next], message.session))
    /\ tsubs' = [tsubs EXCEPT ![t].next = @ + 1]
    /\ UNCHANGED <<lock, subscriptions, thread, should_stop, client, cpc, clocal,
                   tpc, tclient, texc, sockets, message, nmsgs, nclosures,
                   stopped>>
    /\ UNCHANGED svars

\* Line 146: request_eventsub_subscription() raises; nothing catches it.
handle_json_message_request_fails(t) ==
    /\ tpc[t] = "subscribe"
    /\ tsubs[t].next <= Len(tsubs[t].list)
    /\ tpc' = [tpc EXCEPT ![t] = "finally"]
    /\ texc' = [texc EXCEPT ![t] = "RequestError"]
    /\ tsubs' = [tsubs EXCEPT ![t] = [list |-> <<>>, next |-> 1]]
    /\ message' = NoMessage
    /\ requests' = <<>>
    /\ UNCHANGED <<lock, subscriptions, thread, should_stop, client, cpc, clocal,
                   tclient, sockets, nmsgs, nclosures, stopped>>
    /\ UNCHANGED svars

\* Line 145: the for loop is over; back to recv() at line 121.
handle_json_message_done(t) ==
    /\ tpc[t] = "subscribe"
    /\ tsubs[t].next > Len(tsubs[t].list)
    /\ tpc' = [tpc EXCEPT ![t] = "recv"]
    /\ tsubs' = [tsubs EXCEPT ![t] = [list |-> <<>>, next |-> 1]]
    /\ message' = NoMessage
    /\ requests' = <<>>
    /\ UNCHANGED <<lock, subscriptions, thread, should_stop, client, cpc, clocal,
                   tclient, texc, sockets, nmsgs, nclosures, stopped>>
    /\ UNCHANGED svars

\* ---- _run_thread(), the finally clause

\* Line 96: client.close(), whether _handle_client returned or raised.
run_thread_close(t) ==
    /\ tpc[t] = "finally"
    /\ sockets' = close(sockets, tclient[t])
    /\ tpc' = [tpc EXCEPT ![t] = "unpublish_lock"]
    /\ UNCHANGED <<lock, subscriptions, thread, should_stop, client, cpc, clocal,
                   tclient, texc, tsubs, message, requests, nmsgs, nclosures,
                   stopped>>
    /\ UNCHANGED svars

\* Line 97.
run_thread_lock(t) ==
    /\ thread_acquire(t, "unpublish_lock", "unpublish")
    /\ UNCHANGED <<subscriptions, thread, should_stop, client, cpc, clocal, tclient, texc, tsubs, evars, stopped>>

\* The finally clause without line 98: _client is left as it was.
run_thread_leaves_client(t) ==
    /\ tpc[t] = "unpublish"
    /\ IF texc[t] = "none"
       THEN /\ tpc' = [tpc EXCEPT ![t] = "run"]
            /\ UNCHANGED texc
       ELSE thread_exit(t, texc[t])
    /\ lock' = Free
    /\ UNCHANGED <<subscriptions, thread, should_stop, client, tclient, cpc, clocal, tsubs, evars, stopped>>
    /\ UNCHANGED svars

\* Line 98, then the end of the try statement: an exception that was propagating
\* goes on and ends the thread; otherwise the loop starts its next round.
run_thread_unpublish(t) ==
    /\ tpc[t] = "unpublish"
    /\ client' = None
    /\ tclient' = [tclient EXCEPT ![t] = None]
    /\ IF texc[t] = "none"
       THEN /\ tpc' = [tpc EXCEPT ![t] = "run"]
            /\ UNCHANGED texc
       ELSE thread_exit(t, texc[t])
    /\ lock' = Free
    /\ UNCHANGED <<subscriptions, thread, should_stop, cpc, clocal, tsubs, evars, stopped>>
    /\ UNCHANGED svars

\* ------------------------------------------------------- credential store

\* The processes (threads) that call the store.
Procs == {"p1", "p2"}

\* The user ids and the (access_token, refresh_token) pairs the calls pass.
Users == {"u1", "u2"}
TokenPairs == { [access_token |-> "a1", refresh_token |-> "r1"],
                [access_token |-> "a2", refresh_token |-> "r2"] }

\* SQLite's CURRENT_TIMESTAMP: the text "YYYY-MM-DD HH:MM:SS" of the clock's
\* second, in UTC and without a zone suffix.
CURRENT_TIMESTAMP(clock) == [seconds |-> clock, suffix |-> ""]

\* Lines 157, 168: datetime.fromisoformat(text + "Z").  The "Z" appended to the
\* stored text makes the datetime aware, in UTC (Python 3.11 and later parse it).
fromisoformat_Z(text) ==
    LET with_z == [text EXCEPT !.suffix = "Z"]
    IN  [seconds |-> with_z.seconds,
         tzinfo  |-> IF with_z.suffix = "Z" THEN "UTC" ELSE "naive"]

\* The rows of `table' whose user_id is u, in order.
rows_of(table, u) == SelectSeq(table, LAMBDA row : row.user_id = u)

\* The table without the trigger of lines 75-84.
UPDATE_DT_missing(old, new, clock) == new

\* Lines 77-82, the trigger UPDATE_DT: after an UPDATE of a row whose updated_at
\* the statement left as it was, set updated_at to CURRENT_TIMESTAMP.  (The
\* trigger's own UPDATE does not fire it again: recursive triggers are off.)
UPDATE_DT(old, new, clock) ==
    IF old.updated_at = new.updated_at
    THEN [new EXCEPT !.updated_at = CURRENT_TIMESTAMP(clock)]
    ELSE new

\* INSERT OR REPLACE in the place of lines 101-106: a row of that user_id is
\* deleted and a new one inserted, with new timestamps.
insert_or_replace(table, data, clock) ==
    Append(SelectSeq(table, LAMBDA row : row.user_id # data.user_id),
           [user_id       |-> data.user_id,
            access_token  |-> data.access_token,
            refresh_token |-> data.refresh_token,
            created_at    |-> CURRENT_TIMESTAMP(clock),
            updated_at    |-> CURRENT_TIMESTAMP(clock)])

\* Lines 101-106: INSERT ... ON CONFLICT (user_id) DO UPDATE SET access_token,
\* refresh_token.  Without a row of that user_id the INSERT goes through, both
\* timestamps taking their DEFAULT CURRENT_TIMESTAMP (lines 70-71); with one, its
\* two tokens are replaced and the trigger runs.
insert_or_update(table, data, clock) ==
    IF rows_of(table, data.user_id) = <<>>
    THEN Append(table, [user_id       |-> data.user_id,
                        access_token  |-> data.access_token,
                        refresh_token |-> data.refresh_token,
                        created_at    |-> CURRENT_TIMESTAMP(clock),
                        updated_at    |-> CURRENT_TIMESTAMP(clock)])
    ELSE [i \in 1..Len(table) |->
            IF table[i].user_id = data.user_id
            THEN UPDATE_DT(table[i],
                           [table[i] EXCEPT !.access_token = data.access_token,
                                            !.refresh_token = data.refresh_token],
                           clock)
            ELSE table[i]]

\* SELECT <column> FROM twitch_tokens WHERE user_id = :user_id, then fetchone():
\* the first row as a 1-tuple, or Python's None, written <<>>, when there is none.
fetchone(table, column, u) ==
    IF rows_of(table, u) = <<>> THEN <<>> ELSE <<rows_of(table, u)[1][column]>>

\* A token lookup that returns an empty token when there is no row.
token_result_default(fetched) ==
    IF fetched = <<>> THEN "" ELSE fetched[1]

\* Lines 118-121, 131-134: what a token lookup does with the fetched row.
token_result(fetched) ==
    IF fetched = <<>> THEN "UserNotFoundError" ELSE fetched[1]

\* Lines 156-158, 167-169: what a timestamp lookup does with the fetched row.
\* `created_at, = None' cannot be unpacked and raises TypeError.
time_result(fetched) ==
    IF fetched = <<>> THEN "TypeError" ELSE fromisoformat_Z(fetched[1])

\* What the four lookups return or raise for user u on `table'.
get_access_token(table, u)    == token_result(fetchone(table, "access_token", u))
get_refresh_token(table, u)   == token_result(fetchone(table, "refresh_token", u))
get_created_at_time(table, u) == time_result(fetchone(table, "created_at", u))
get_updated_at_time(table, u) == time_result(fetchone(table, "updated_at", u))

\* `via' is "refresh" in the calls refresh_access_token() makes.
NoCall == [user_id |-> "none", access_token |-> "none", refresh_token |-> "none",
           column |-> "none", fetched |-> <<>>, via |-> "none"]

\* The summary of a user's upserts before the first one.
NoHistory == [upserts |-> "none", first |-> 0, access_token |-> "none", refresh_token |-> "none"]

SInit ==
    /\ db = <<>>
    /\ committed = <<>>
    /\ now = 0
    /\ dblock = "free"
    /\ spc = [p \in Procs |-> "idle"]
    /\ scall = [p \in Procs |-> NoCall]
    /\ history = [u \in Users |-> NoHistory]

\* `with self.__lock:' entered without waiting for the lock to be free.
store_acquire_unguarded(p, to) ==
    /\ spc[p] = "idle"
    /\ dblock' = p
    /\ spc' = [spc EXCEPT ![p] = to]

\* `with self.__lock:' entered by process p.
store_acquire(p, to) ==
    /\ spc[p] = "idle"
    /\ dblock = "free"
    /\ dblock' = p
    /\ spc' = [spc EXCEPT ![p] = to]

\* The clock reaches its next second.
tick ==
    /\ now < MaxClock
    /\ now' = now + 1
    /\ UNCHANGED <<db, committed, dblock, spc, scall, history, cvars>>

\* ---- update_or_create_user(user_id, access_token, refresh_token)

\* Lines 94-100.
update_or_create_user_lock(p, u, pair) ==
    /\ store_acquire(p, "upsert_execute")
    /\ scall' = [scall EXCEPT ![p] = [NoCall EXCEPT !.user_id = u,
                                                    !.access_token = pair.access_token,
                                                    !.refresh_token = pair.refresh_token]]
    /\ UNCHANGED <<db, committed, now, history, cvars>>

\* The summary of the upserts of one user, after one more at `clock': how many
\* (one, or more than one), the clock at the first, the tokens of the last.
recorded(h, data, clock) ==
    [upserts       |-> IF h.upserts = "none" THEN "one" ELSE "many",
     first         |-> IF h.upserts = "none" THEN clock ELSE h.first,
     access_token  |-> data.access_token,
     refresh_token |-> data.refresh_token]

\* Lines 101-106: cur.execute() of the statement.
update_or_create_user_execute(p) ==
    /\ spc[p] = "upsert_execute"
    /\ db' = insert_or_update(db, scall[p], now)
    /\ history' = [history EXCEPT ![scall[p].user_id] = recorded(@, scall[p], now)]
    /\ spc' = [spc EXCEPT ![p] = "upsert_commit"]
    /\ UNCHANGED <<committed, now, dblock, scall, cvars>>

\* Line 108: self.db.commit(), and the end of the `with' block.
update_or_create_user_commit(p) ==
    /\ spc[p] = "upsert_commit"
    /\ committed' = db
    /\ dblock' = "free"
    /\ IF scall[p].via = "refresh"
       THEN spc' = [spc EXCEPT ![p] = "refresh_return"] /\ UNCHANGED scall
       ELSE spc' = [spc EXCEPT ![p] = "idle"] /\ scall' = [scall EXCEPT ![p] = NoCall]
    /\ UNCHANGED <<db, now, history, cvars>>

\* ---- get_access_token(user_id), get_refresh_token(user_id)

\* Lines 111-115, 124-128; `column' is access_token or refresh_token.
get_token_lock(p, column, u) ==
    /\ store_acquire(p, "get_token_fetch")
    /\ scall' = [scall EXCEPT ![p] = [NoCall EXCEPT !.user_id = u, !.column = column]]
    /\ UNCHANGED <<db, committed, now, history, cvars>>

\* Lines 116-117, 129-130: the SELECT and fetchone(), and the end of the `with' block.
get_token_fetch(p) ==
    /\ spc[p] = "get_token_fetch"
    /\ scall' = [scall EXCEPT ![p].fetched = fetchone(db, scall[p].column, scall[p].user_id)]
    /\ dblock' = "free"
    /\ spc' = [spc EXCEPT ![p] = "get_token_return"]
    /\ UNCHANGED <<db, committed, now, history, cvars>>

\* Lines 118-121, 131-134: raise UserNotFoundError, or return the token: to the
\* caller, or to refresh_access_token(), which an exception leaves at once.
get_token_return(p) ==
    /\ spc[p] = "get_token_return"
    /\ IF scall[p].via = "refresh" /\ token_result(scall[p].fetched) # "UserNotFoundError"
       THEN spc' = [spc EXCEPT ![p] = "refresh_call"] /\ UNCHANGED scall
       ELSE spc' = [spc EXCEPT ![p] = "idle"] /\ scall' = [scall EXCEPT ![p] = NoCall]
    /\ UNCHANGED <<db, committed, now, dblock, history, cvars>>

\* ---- get_created_at_time(user_id), get_updated_at_time(user_id)

\* Lines 150-154, 161-165; `column' is created_at or updated_at.
get_time_lock(p, column, u) ==
    /\ store_acquire(p, "get_time_fetch")
    /\ scall' = [scall EXCEPT ![p] = [NoCall EXCEPT !.user_id = u, !.column = column]]
    /\ UNCHANGED <<db, committed, now, history, cvars>>

\* Lines 155-156, 166-167: the SELECT, fetchone() and the unpacking, which raises
\* TypeError on None; the `with' block ends either way.
get_time_fetch(p) ==
    /\ spc[p] = "get_time_fetch"
    /\ scall' = [scall EXCEPT ![p].fetched = fetchone(db, scall[p].column, scall[p].user_id)]
    /\ dblock' = "free"
    /\ spc' = [spc EXCEPT ![p] = "get_time_return"]
    /\ UNCHANGED <<db, committed, now, history, cvars>>

\* Lines 157-158, 168-169: the TypeError goes on to the caller, or the parsed time
\* is returned.
get_time_return(p) ==
    /\ spc[p] = "get_time_return"
    /\ spc' = [spc EXCEPT ![p] = "idle"]
    /\ scall' = [scall EXCEPT ![p] = NoCall]
    /\ UNCHANGED <<db, committed, now, dblock, history, cvars>>

\* ---- TwitchAuthDbUserTokenProvider.refresh_access_token(), for user u

\* Line 33, the argument: get_refresh_token(self._user_id) takes the lock.
refresh_access_token_lock(p, u) ==
    /\ store_acquire(p, "get_token_fetch")
    /\ scall' = [scall EXCEPT ![p] = [NoCall EXCEPT !.user_id = u,
                                                    !.column = "refresh_token",
                                                    !.via = "refresh"]]
    /\ UNCHANGED <<db, committed, now, history, cvars>>

\* Lines 34-38 with the refresh token left as it was read.
update_arguments_old_refresh_token(call, refresh_result) ==
    [call EXCEPT !.access_token = refresh_result.access_token,
                 !.refresh_token = call.fetched[1]]

\* Lines 34-38: the arguments of update_or_create_user(), from the result of
\* refresh_auth_token().
update_arguments(call, refresh_result) ==
    [call EXCEPT !.access_token = refresh_result.access_token,
                 !.refresh_token = refresh_result.refresh_token]

\* Line 33: Twitch().refresh_auth_token() returns a new pair of tokens.
refresh_auth_token(p, refresh_result) ==
    /\ spc[p] = "refresh_call"
    /\ scall' = [scall EXCEPT ![p] = update_arguments(scall[p], refresh_result)]
    /\ spc' = [spc EXCEPT ![p] = "refresh_upsert"]
    /\ UNCHANGED <<db, committed, now, dblock, history, cvars>>

\* Line 33: Twitch().refresh_auth_token() raises, and so does refresh_access_token().
refresh_auth_token_fails(p) ==
    /\ spc[p] = "refresh_call"
    /\ spc' = [spc EXCEPT ![p] = "idle"]
    /\ scall' = [scall EXCEPT ![p] = NoCall]
    /\ UNCHANGED <<db, committed, now, dblock, history, cvars>>

\* Lines 34, 94-100: update_or_create_user() takes the lock.
refresh_access_token_update(p) ==
    /\ spc[p] = "refresh_upsert"
    /\ dblock = "free"
    /\ dblock' = p
    /\ spc' = [spc EXCEPT ![p] = "upsert_execute"]
    /\ UNCHANGED <<db, committed, now, scall, history, cvars>>

\* Line 39: return refresh_result.new_access_token.
refresh_access_token_return(p) ==
    /\ spc[p] = "refresh_return"
    /\ spc' = [spc EXCEPT ![p] = "idle"]
    /\ scall' = [scall EXCEPT ![p] = NoCall]
    /\ UNCHANGED <<db, committed, now, dblock, history, cvars>>

\* ---- the store's specification

StoreNext ==
    \/ tick
    \/ \E p \in Procs, u \in Users, pair \in TokenPairs : update_or_create_user_lock(p, u, pair)
    \/ \E p \in Procs : update_or_create_user_execute(p)
    \/ \E p \in Procs : update_or_create_user_commit(p)
    \/ \E p \in Procs, u \in Users, column \in {"access_token", "refresh_token"} :
          get_token_lock(p, column, u)
    \/ \E p \in Procs : get_token_fetch(p)
    \/ \E p \in Procs : get_token_return(p)
    \/ \E p \in Procs, u \in Users, column \in {"created_at", "updated_at"} :
          get_time_lock(p, column, u)
    \/ \E p \in Procs : get_time_fetch(p)
    \/ \E p \in Procs : get_time_return(p)
    \/ \E p \in Procs, u \in Users : refresh_access_token_lock(p, u)
    \/ \E p \in Procs, refresh_result \in TokenPairs : refresh_auth_token(p, refresh_result)
    \/ \E p \in Procs : refresh_auth_token_fails(p)
    \/ \E p \in Procs : refresh_access_token_update(p)
    \/ \E p \in Procs : refresh_access_token_return(p)

\* ---- the connection manager's specification

Closures == {"closed_ok", "closed_error"}

\* The calls begun by the callers in `adders', `starters' and `stoppers', and what
\* every caller does inside a call it has begun.
CallerNext(adders, starters, stoppers) ==
    \/ \E c \in adders : add_subscription_lock(c)
    \/ \E c \in Callers, sub \in Descriptors : add_subscription(c, sub)
    \/ \E c \in Callers : caller_resumes(c)
    \/ \E c \in starters : start_thread_lock(c)
    \/ \E c \in Callers : start_thread(c)
    \/ \E c \in stoppers : stop_thread_lock(c)
    \/ \E c \in Callers : stop_thread_flag(c)
    \/ \E c \in Callers : stop_thread_close(c)
    \/ \E c \in Callers : stop_thread_relock(c)
    \/ \E c \in Callers : stop_thread_read(c)
    \/ \E c \in Callers : stop_thread_join(c)

\* The steps of the background threads and of the server.
ThreadNext ==
    \/ \E t \in Threads : maybe_create_client_lock(t)
    \/ \E t \in Threads : maybe_create_client_check(t)
    \/ \E t \in Threads : connect(t)
    \/ \E t \in Threads : connect_fails(t)
    \/ \E t \in Threads : maybe_create_client_relock(t)
    \/ \E t \in Threads : maybe_create_client_publish(t)
    \/ \E t \in Threads, m \in Messages : handle_client_recv(t, m)
    \/ \E t \in Threads, how \in Closures : handle_client_closed_by_server(t, how)
    \/ \E t \in Threads : handle_client_closed(t)
    \/ \E t \in Threads : handle_client_recv_fails(t)
    \/ \E t \in Threads : handle_json_message_lock(t)
    \/ \E t \in Threads : handle_json_message_copy(t)
    \/ \E t \in Threads : handle_json_message_request(t)
    \/ \E t \in Threads : handle_json_message_request_fails(t)
    \/ \E t \in Threads : handle_json_message_done(t)
    \/ \E t \in Threads : run_thread_close(t)
    \/ \E t \in Threads : run_thread_lock(t)
    \/ \E t \in Threads : run_thread_unpublish(t)

\* Every caller may begin every call at any time.
Next == CallerNext(Callers, Callers, Callers) \/ ThreadNext

\* One thread ("c1") sets the manager up and starts it, another ("c2") starts and
\* stops it: the callers of the runs in which fairness is assumed.
RolesNext == CallerNext({"c1"}, Callers, {"c2"}) \/ ThreadNext

vars == <<cvars, svars>>

Init == CInit /\ SInit

Spec == Init /\ [][Next]_vars

StoreSpec == Init /\ [][StoreNext]_vars

\* ---- scheduling

\* What caller c does next inside a call it has begun, the lock acquisitions aside.
caller_step(c) ==
    \/ \E sub \in Descriptors : add_subscription(c, sub)
    \/ start_thread(c)
    \/ stop_thread_flag(c)
    \/ stop_thread_close(c)
    \/ stop_thread_read(c)
    \/ stop_thread_join(c)

\* What thread t does next without waiting for the server: everything except a
\* recv() on an open socket, which returns only when the server sends or closes.
thread_step(t) ==
    \/ maybe_create_client_check(t)
    \/ connect(t)
    \/ connect_fails(t)
    \/ maybe_create_client_publish(t)
    \/ handle_client_closed(t)
    \/ handle_json_message_copy(t)
    \/ handle_json_message_request(t)
    \/ handle_json_message_request_fails(t)
    \/ handle_json_message_done(t)
    \/ run_thread_close(t)
    \/ run_thread_unpublish(t)

\* The lock acquisitions of thread t.
thread_lock(t) ==
    \/ maybe_create_client_lock(t)
    \/ maybe_create_client_relock(t)
    \/ handle_json_message_lock(t)
    \/ run_thread_lock(t)

\* A running thread goes on running, and a call that has begun goes on: connect(),
\* close() and the API requests return, and a thread waiting for the lock gets it
\* if it is free again and again.  Whether a caller begins a call, and what the
\* server sends, is left open.
Fairness ==
    /\ \A c \in Callers : WF_vars(caller_step(c)) /\ SF_vars(stop_thread_relock(c))
    /\ \A t \in Threads : WF_vars(thread_step(t)) /\ SF_vars(thread_lock(t))

FairSpec == Init /\ [][RolesNext]_vars /\ Fairness

\* ------------------------------------------------------------------ claims

\* The positions of a caller inside stop_thread().
StopPcs == {"stop_flag", "stop_close", "stop_relock", "stop_read", "stop_join"}

\* Caller c's stop_thread() returns in this step.
StopReturns(c) == cpc[c] \in {"stop_read", "stop_join"} /\ cpc'[c] = "idle"

\* The value of _thread that the returning stop_thread() of caller c read.
ThreadRead(c) == IF cpc[c] = "stop_join" THEN clocal[c].thread ELSE thread

\* Thread t begins a connect attempt in this step.
BeginsConnect(t) == tpc[t] # "connect" /\ tpc'[t] = "connect"

\* C1.  When a stop_thread() call returns, the background thread it stopped
\* (the one _thread named when the call read it, and every thread created before
\* it) has finished running and _client is None; and once a stop_thread() call
\* has returned, no thread begins a connect attempt.
C1_StopLeavesNothingRunning ==
    [][ /\ \A c \in Callers :
              StopReturns(c) =>
                  /\ \A t \in Threads : t <= ThreadRead(c) =>
                         tpc'[t] \in {"exited", "crashed"}
                  /\ client' = None
        /\ stopped => \A t \in Threads : ~BeginsConnect(t)
      ]_vars

\* C1, witness: a stop_thread() has returned after a socket had been opened, and
\* the thread has left its loop.
C1_Witness ==
    /\ stopped
    /\ sockets # <<>>
    /\ \E t \in Threads : tpc[t] = "exited"

\* C2.  Every stop_thread() call that has begun returns.
C2_StopReturns == \A c \in Callers : (cpc[c] \in StopPcs) ~> (cpc[c] = "idle")

\* C2, witness: a stop_thread() call waits in join() for a thread that is still
\* inside recv().
C2_Witness ==
    \E c \in Callers :
        /\ cpc[c] = "stop_join"
        /\ tpc[clocal[c].thread] = "recv"

\* C3.  A stop_thread() call that finds no thread was ever created leaves
\* _subscriptions, _thread, _should_stop and _client as they were.
C3_StopBeforeStartChangesNothing ==
    [][ \A c \in Callers :
            (cpc[c] = "stop_flag" /\ cpc'[c] # "stop_flag" /\ thread = None) =>
                UNCHANGED <<subscriptions, thread, should_stop, client>>
      ]_vars

\* C4.  add_subscription() on an instance whose _thread was ever set raises a
\* NotImplementedError and leaves the list as it was; before that it returns
\* normally, having appended one descriptor to the end of the list.
C4_AddAfterStartUnsupported ==
    [][ \A c \in Callers :
            (cpc[c] = "add_subscription" /\ cpc'[c] # "add_subscription") =>
                IF thread # None
                THEN cpc'[c] = "NotImplementedError" /\ UNCHANGED subscriptions
                ELSE /\ cpc'[c] = "idle"
                     /\ \E sub \in Descriptors : subscriptions' = Append(subscriptions, sub)
      ]_vars

\* C5.  start_thread() with an empty subscription list raises AssertionError and
\* creates no thread: afterwards _thread is still None, no thread has started
\* and no socket was ever opened.
C5_StartWithoutSubscriptionFails ==
    [][ \A c \in Callers :
            (cpc[c] = "start_thread" /\ cpc'[c] # "start_thread" /\ subscriptions = <<>>) =>
                /\ cpc'[c] = "AssertionError"
                /\ thread' = None
                /\ \A t \in Threads : tpc'[t] = "unstarted"
                /\ sockets' = <<>>
      ]_vars

\* C5, witness: a start_thread() call has failed on an empty list.
C5_Witness ==
    /\ subscriptions = <<>>
    /\ \E c \in Callers : cpc[c] = "AssertionError"

\* The background threads that are alive.
Alive == {t \in Threads : is_alive(t)}

\* C6.  At most one background thread is alive at any time; a start_thread()
\* that finds a thread alive raises AssertionError and creates none, and every
\* start_thread() that returns normally has created exactly one thread.
C6_AtMostOneThreadAlive ==
    /\ [](Cardinality(Alive) <= 1)
    /\ [][ \A c \in Callers :
               (cpc[c] = "start_thread" /\ cpc'[c] # "start_thread") =>
                   IF Alive # {}
                   THEN cpc'[c] = "AssertionError" /\ UNCHANGED <<thread, tpc>>
                   ELSE cpc'[c] = "idle" =>
                          /\ thread' = thread + 1
                          /\ tpc' = [tpc EXCEPT ![thread + 1] = "run"]
         ]_vars

\* C6, witness: a start_thread() call has failed although subscriptions are
\* registered, that is, because the thread was alive; and it still is.
C6_Witness ==
    /\ subscriptions # <<>>
    /\ Alive # {}
    /\ \E c \in Callers : cpc[c] = "AssertionError"

\* Thread t's recv() has just ended because the server closed the connection:
\* the socket is still as the server left it, before line 96 closes it.
ClosedByServer(t) == tpc[t] = "finally" /\ sockets[tclient[t]] \in Closures

\* Thread t is about to connect again, the old socket closed and unpublished.
Reconnects(t) ==
    /\ tpc[t] = "connect"
    /\ client = None
    /\ \A s \in 1..Len(sockets) : sockets[s] = "closed"

\* C7.  After the server closes the connection (cleanly or with an error)
\* while no stop is requested, the thread closes and unpublishes the socket and
\* begins a new connect attempt, unless a stop is requested in the meantime.
C7_ClosureThenReconnect ==
    \A t \in Threads :
        (ClosedByServer(t) /\ ~should_stop) ~> (Reconnects(t) \/ should_stop)

\* C7, witness: a thread connects again after a closure by the server, no stop
\* requested.
C7_Witness ==
    /\ nclosures > 0
    /\ ~should_stop
    /\ \E t \in Threads : Reconnects(t)

\* The requests a session_welcome with session id s must lead to: one per
\* registered subscription, in order.
ExpectedRequests(s) ==
    [i \in 1..Len(subscriptions) |->
        [ type      |-> subscriptions[i].type,
          version   |-> subscriptions[i].version,
          condition |-> subscriptions[i].condition,
          transport |-> [method |-> "websocket", session_id |-> s] ]]

\* C8.  While a session_welcome with session id S is handled, the requests
\* made so far are those for the first registered subscriptions, in order, each
\* with its type, version, condition and transport {websocket, S}; when the
\* handling returns they are exactly those for all N registered subscriptions,
\* on the first connection as on a later one; a message of another type starts
\* no handling, and no request is made outside the handling of a
\* session_welcome.
C8_WelcomeSubscribesAll ==
    /\ [](message.kind = "session_welcome" =>
             requests = SubSeq(ExpectedRequests(message.session), 1, Len(requests)))
    /\ [][ /\ \A t \in Threads :
               (tpc[t] = "subscribe" /\ tpc'[t] = "recv") =>
                   /\ message.kind = "session_welcome"
                   /\ requests = ExpectedRequests(message.session)
           /\ \A t \in Threads :
               (tpc[t] = "recv" /\ nmsgs' # nmsgs /\ message'.kind # "session_welcome") =>
                   /\ requests' = <<>>
                   /\ tpc'[t] \in {"recv", "finally"}
           /\ (requests' # requests /\ requests' # <<>>) => message.kind = "session_welcome"
       ]_vars

\* C8, witness: on a second connection, the welcome's requests for two
\* registered subscriptions have all been made.
C8_Witness ==
    /\ Len(sockets) >= 2
    /\ Len(subscriptions) = 2
    /\ message.kind = "session_welcome"
    /\ requests = ExpectedRequests(message.session)

\* What a timestamp lookup returns for a row written at second `clock'.
TimeAt(clock) == [seconds |-> clock, tzinfo |-> "UTC"]

\* C9.  The table holds at most one row per user_id; for every user that was
\* upserted, get_access_token and get_refresh_token return the tokens of the
\* last upsert and get_created_at_time the time of the first.
C9_OneRowLastTokensFirstTime ==
    \A u \in Users :
        /\ Len(rows_of(db, u)) <= 1
        /\ history[u].upserts # "none" =>
              /\ Len(rows_of(db, u)) = 1
              /\ get_access_token(db, u) = history[u].access_token
              /\ get_refresh_token(db, u) = history[u].refresh_token
              /\ get_created_at_time(db, u) = TimeAt(history[u].first)

\* C9, witness: a user was upserted again, with other tokens and at a later
\* second than the first time.
C9_Witness ==
    \E u \in Users :
        /\ history[u].upserts = "many"
        /\ get_access_token(db, u) = "a2"
        /\ get_updated_at_time(db, u).seconds > get_created_at_time(db, u).seconds

\* Process p executes the statement of update_or_create_user in this step.
Executes(p) == spc[p] = "upsert_execute" /\ spc'[p] = "upsert_commit"

\* C10 as stated.  Every update_or_create_user for a user_id that has a row
\* strictly increases what get_updated_at_time returns for it.
C10_EveryUpsertAdvances ==
    [][ \A p \in Procs :
            (Executes(p) /\ rows_of(db, scall[p].user_id) # <<>>) =>
                get_updated_at_time(db', scall[p].user_id).seconds
                    > get_updated_at_time(db, scall[p].user_id).seconds
      ]_vars

\* C10, amended.  Every update_or_create_user for a user_id that has a row sets
\* updated_at to the clock's second at the call, whatever the tokens: what
\* get_updated_at_time returns increases if that second is later than the
\* stored one and stays the same if it is the same second; created_at is left
\* alone.  An insert sets both to the clock's second.
C10_UpsertSetsUpdatedAtToClock ==
    [][ \A p \in Procs :
            Executes(p) =>
                LET u == scall[p].user_id
                IN  /\ get_updated_at_time(db', u) = TimeAt(now)
                    /\ IF rows_of(db, u) = <<>>
                       THEN get_created_at_time(db', u) = TimeAt(now)
                       ELSE /\ get_created_at_time(db', u) = get_created_at_time(db, u)
                            /\ get_updated_at_time(db', u).seconds
                                   >= get_updated_at_time(db, u).seconds
                            /\ (get_updated_at_time(db', u).seconds
                                   > get_updated_at_time(db, u).seconds)
                               <=> (now > get_updated_at_time(db, u).seconds)
      ]_vars

\* C10, witness: a user was upserted more than once and, every upsert having come
\* within the second of the first, updated_at still equals created_at.
C10_Witness ==
    \E u \in Users :
        /\ history[u].upserts = "many"
        /\ get_updated_at_time(db, u) = get_created_at_time(db, u)

\* Process p's token lookup runs its SELECT and leaves the `with' block in this step.
TokenFetched(p) == spc[p] = "get_token_fetch" /\ spc'[p] = "get_token_return"

\* C11.  get_access_token and get_refresh_token for a user_id without a row
\* raise UserNotFoundError (they return no value), and from the SELECT to the
\* raise they leave the table, committed or not, as it was and do not hold the
\* store's lock.
C11_TokenLookupOfUnknownUserFails ==
    [][ \A p \in Procs :
            /\ (TokenFetched(p) /\ rows_of(db, scall[p].user_id) = <<>>) =>
                   /\ token_result(scall'[p].fetched) = "UserNotFoundError"
                   /\ dblock' = "free"
                   /\ UNCHANGED <<db, committed>>
            /\ (/\ spc[p] = "get_token_return" /\ spc'[p] # "get_token_return"
                /\ scall[p].fetched = <<>>) =>
                   /\ dblock # p /\ dblock' # p
                   /\ UNCHANGED <<db, committed>>
                   /\ spc'[p] = "idle"
      ]_vars

\* C11, witness: a token lookup is about to raise for a user without a row, while
\* another user has one.
C11_Witness ==
    \E p \in Procs :
        /\ spc[p] = "get_token_return"
        /\ token_result(scall[p].fetched) = "UserNotFoundError"
        /\ db # <<>>

\* Process p's timestamp lookup runs its SELECT and unpacks the row in this step.
TimeFetched(p) == spc[p] = "get_time_fetch" /\ spc'[p] = "get_time_return"

\* C12.  get_created_at_time for a user_id without a row raises
\* UserNotFoundError, as the token lookups do.
C12_CreatedAtOfUnknownUserNotFound ==
    [][ \A p \in Procs :
            (/\ TimeFetched(p)
             /\ scall[p].column = "created_at"
             /\ rows_of(db, scall[p].user_id) = <<>>) =>
                time_result(scall'[p].fetched) = "UserNotFoundError"
      ]_vars

\* The positions of a process inside `with self.__lock:'.
CriticalPcs == {"upsert_execute", "upsert_commit", "get_token_fetch", "get_time_fetch"}

\* C14.  At most one process is inside a `with self.__lock:' block, and it holds
\* the lock; the table differs from its committed state only while an upsert is
\* between its statement and its commit, inside the block; so the row a
\* get_access_token or get_refresh_token reads is a committed one, whole.
C14_OneInCriticalSection ==
    /\ [](/\ Cardinality({p \in Procs : spc[p] \in CriticalPcs}) <= 1
          /\ \A p \in Procs : spc[p] \in CriticalPcs => dblock = p
          /\ db # committed => \E p \in Procs : spc[p] = "upsert_commit")
    /\ [][ \A p \in Procs :
               TokenFetched(p) =>
                   /\ db = committed
                   /\ scall'[p].fetched = fetchone(committed, scall[p].column, scall[p].user_id)
         ]_vars

\* C14, witness: a lookup of a user waits for the lock while an upsert of that
\* user has run its statement and not yet committed.
C14_Witness ==
    \E p, q \in Procs :
        /\ spc[p] = "upsert_commit"
        /\ db # committed
        /\ spc[q] = "idle"
        /\ history[scall[p].user_id].upserts = "many"

\* The (access_token, refresh_token) of the rows of `table'.
StoredPairs(table) ==
    { [access_token |-> table[i].access_token, refresh_token |-> table[i].refresh_token] :
          i \in 1..Len(table) }

\* C13.  A refresh_access_token() whose refresh_auth_token() call raises leaves
\* the table, committed or not, as it was; one whose call returns writes the two
\* new tokens with one statement and commits them before it returns, and returns
\* only after that commit; and the pair of every row is at all times a pair
\* that one upsert or one refresh wrote, never the access token of one and the
\* refresh token of another.
C13_RefreshWritesBothOrNothing ==
    /\ [](StoredPairs(db) \subseteq TokenPairs /\ StoredPairs(committed) \subseteq TokenPairs)
    /\ [][ \A p \in Procs :
               /\ (spc[p] = "refresh_call" /\ spc'[p] = "idle") =>
                      UNCHANGED <<db, committed, dblock>>
               /\ (Executes(p) /\ scall[p].via = "refresh") =>
                      /\ get_access_token(db', scall[p].user_id) = scall[p].access_token
                      /\ get_refresh_token(db', scall[p].user_id) = scall[p].refresh_token
               /\ (spc[p] # "refresh_return" /\ spc'[p] = "refresh_return") =>
                      /\ spc[p] = "upsert_commit"
                      /\ get_access_token(committed', scall[p].user_id) = scall[p].access_token
                      /\ get_refresh_token(committed', scall[p].user_id) = scall[p].refresh_token
         ]_vars

\* C13, witness: a refresh of a user is about to return its new access token
\* while another refresh of the same user, with another result, waits to write.
C13_Witness ==
    \E p, q \in Procs :
        /\ spc[p] = "refresh_return"
        /\ spc[q] = "refresh_upsert"
        /\ scall[q].user_id = scall[p].user_id
        /\ scall[q].access_token # scall[p].access_token

\* C15.  A background thread that has ended, ended after a stop was requested.
C15_ThreadEndsOnlyAfterStop ==
    \A t \in Threads : tpc[t] \in {"exited", "crashed"} => should_stop

\* C16.  When recv() returns bytes and line 137 raises TypeError, only that
\* message is dropped: no request is made, the socket stays open and published,
\* and the thread is back at recv().
C16_BinaryMessageOnlyDropped ==
    [][ \A t \in Threads :
            (tpc[t] = "recv" /\ texc'[t] = "TypeError") =>
                /\ requests' = requests
                /\ sockets'[tclient[t]] = "open"
                /\ client' = tclient[t]
                /\ tpc'[t] = "recv"
      ]_vars

\* The positions of a thread between the publication of its socket and the
\* finally clause: in recv(), or handling the message recv() returned.
ReceivePcs == {"recv", "welcome_lock", "welcome_copy", "subscribe"}

\* The sockets that are not closed.
Unclosed == {s \in 1..Len(sockets) : sockets[s] # "closed"}

\* C17.  _client is set to a socket only while _should_stop is False; with
\* _should_stop True at the first look no connect is begun; with _should_stop
\* True at the second look the new socket is closed, _client stays None and the
\* thread returns; a thread receives only on the socket it published; and every
\* socket that is not closed belongs to a thread that is alive.
C17_PublishesOnlyWhileNotStopped ==
    /\ [](/\ \A t \in Threads : tpc[t] \in ReceivePcs => (client = tclient[t] /\ client # None)
          /\ \A s \in Unclosed : \E t \in Threads : is_alive(t) /\ tclient[t] = s)
    /\ [][ /\ (client' # client /\ client' # None) => (~should_stop /\ ~should_stop')
           /\ \A t \in Threads :
               /\ (tpc[t] = "check_stop" /\ tpc'[t] # "check_stop" /\ should_stop) =>
                      (tpc'[t] = "exited" /\ sockets' = sockets)
               /\ (tpc[t] = "publish" /\ tpc'[t] # "publish" /\ should_stop) =>
                      /\ sockets'[tclient[t]] = "closed"
                      /\ client' = None
                      /\ tpc'[t] = "exited"
       ]_vars

\* C17, witness: the only stop_thread() call so far found _client None and
\* waits in join(); the thread, which was inside connect() then, has closed the
\* socket it got and returned without publishing it.
C17_Witness ==
    /\ ~stopped
    /\ sockets = <<"closed">>
    /\ nmsgs = 0 /\ nclosures = 0
    /\ tpc[1] = "exited"
    /\ \E c \in Callers :
           /\ cpc[c] = "stop_join" /\ clocal[c].client = None
           /\ \A d \in Callers \ {c} : cpc[d] \notin StopPcs

\* C18.  No thread holds _lock while it is inside connect(), recv(), a
\* subscription request, the close() of stop_thread() or join(); and only a
\* background thread is ever inside connect() or recv().
C18_LockNotHeldWhileBlocking ==
    /\ \A t \in Threads :
           tpc[t] \in {"connect", "recv", "subscribe"} => lock # HeldByThread(t)
    /\ \A c \in Callers :
           /\ cpc[c] \in {"stop_close", "stop_join"} => lock # HeldByCaller(c)
           /\ cpc[c] \notin {"connect", "recv"}

\* C18, witness: the background thread is inside recv() and a caller inside the
\* close() of stop_thread(), while the other caller holds the lock.
C18_Witness ==
    /\ \E t \in Threads : tpc[t] = "recv"
    /\ \E c, d \in Callers : cpc[c] = "stop_close" /\ lock = HeldByCaller(d)

\* C19.  Where _maybe_create_client() asserts `self._client is None' (lines
\* 102, 109) _client is None, so no thread ends with that AssertionError; a
\* published socket is the one of the thread that is alive; and at most one
\* socket is not closed.
C19_ClientIsNoneWhereAsserted ==
    /\ [](/\ \A t \in Threads : tpc[t] \in {"check_stop", "publish"} => client = None
          /\ client # None => \E t \in Threads : is_alive(t) /\ tclient[t] = client
          /\ Cardinality(Unclosed) <= 1)
    /\ [][ \A t \in Threads :
               (tpc[t] \in {"check_stop", "publish"} /\ tpc'[t] # tpc[t]) =>
                   tpc'[t] \in {"connect", "recv", "exited"}
         ]_vars

\* C19, witness: the second thread, started after the first one ended, is at the
\* assertion of line 109 with its new socket.
C19_Witness ==
    /\ tpc[1] \in {"exited", "crashed"}
    /\ tpc[2] = "publish"
    /\ sockets[tclient[2]] = "open"

=============================================================================
